---- MODULE Spec2Model ----
(***************************************************************************)
(* The three inference apps of hf-spaces (alzheimers-model, brain-tumor-   *)
(* model, stroke-model) as one state machine.  `app` selects the process   *)
(* that is running; each process starts (module import), then serves       *)
(* requests.  Probabilities and confidences are integers in hundredths     *)
(* (0.05 is 5, 0.8 is 80); Optional[T] values are sequences of length at   *)
(* most one (<<>> is None).                                                *)
(***************************************************************************)
EXTENDS Integers, Sequences, FiniteSets, TLC

VARIABLES
    app,            \* which app.py this process runs
    proc,           \* "starting" (importing the module), "serving", "crashed"
    model,          \* image apps: global `model`; 0 is None, n > 0 the n-th object built
    loads,          \* image apps: number of model constructions attempted so far
    th,             \* image apps: per thread, the request it handles and its locals
    model_info,     \* stroke: global `model_info`: "unbound", "None" or "loaded"
    pipeline,       \* stroke: global `pipeline`, "undefined" or the fitted estimator
    form,           \* stroke: the form fields of the request being sent
    result,         \* stroke: the dict returned for `form`, <<>> while none
    branch,         \* stroke: which branch of the try built `result`
    first_omitted,  \* stroke: the first result returned for a request with no field
    load_env        \* what the load at module import found ("none" before it ran)

vars == <<app, proc, model, loads, th, model_info, pipeline, form, result,
          branch, first_omitted, load_env>>

imageVars == <<model, loads, th>>
strokeVars == <<model_info, pipeline, form, result, branch, first_omitted>>

(***************************************************************************)
(* Bounds of the model.                                                    *)
(***************************************************************************)
MaxLoads == 2

(***************************************************************************)
(* Stroke app: src/hf-spaces/stroke-model/app.py                           *)
(***************************************************************************)
None == <<>>

Some(v) == <<v>>

FieldNames ==
    {"gender", "age", "hypertension", "heart_disease", "ever_married",
     "work_type", "Residence_type", "avg_glucose_level", "bmi", "smoking_status"}

\* Values a client sends for each form field (besides omitting it); age 65
\* sits on the `> 65` threshold.
FieldValues ==
    [gender            |-> {"Female"},
     age               |-> {65, 70},
     hypertension      |-> {1},
     heart_disease     |-> {1},
     ever_married      |-> {"Yes"},
     work_type         |-> {"Govt_job"},
     Residence_type    |-> {"Rural"},
     avg_glucose_level |-> {150, 200},
     bmi               |-> {35},
     smoking_status    |-> {"formerly smoked", "smokes"}]

EmptyForm == [f \in FieldNames |-> None]

\* `x if x else d` on an Optional[str]: None and "" are falsy.
OrDefault(x, d) == IF x # None /\ x[1] # "" THEN x[1] ELSE d

\* `conv(x) if x is not None else d` on an Optional number.
IfNotNone(x, d) == IF x # None THEN x[1] ELSE d

\* processed_data with hypertension defaulting to 1.
processed_data_hypertensive(fd) ==
    [gender            |-> OrDefault(fd.gender, "Male"),
     age               |-> IfNotNone(fd.age, 0),
     hypertension      |-> IfNotNone(fd.hypertension, 1),
     heart_disease     |-> IfNotNone(fd.heart_disease, 0),
     ever_married      |-> OrDefault(fd.ever_married, "No"),
     work_type         |-> OrDefault(fd.work_type, "Private"),
     Residence_type    |-> OrDefault(fd.Residence_type, "Urban"),
     avg_glucose_level |-> IfNotNone(fd.avg_glucose_level, 0),
     bmi               |-> IfNotNone(fd.bmi, 0),
     smoking_status    |-> OrDefault(fd.smoking_status, "never smoked")]

processed_data(fd) ==
    [gender            |-> OrDefault(fd.gender, "Male"),
     age               |-> IfNotNone(fd.age, 0),
     hypertension      |-> IfNotNone(fd.hypertension, 0),
     heart_disease     |-> IfNotNone(fd.heart_disease, 0),
     ever_married      |-> OrDefault(fd.ever_married, "No"),
     work_type         |-> OrDefault(fd.work_type, "Private"),
     Residence_type    |-> OrDefault(fd.Residence_type, "Urban"),
     avg_glucose_level |-> IfNotNone(fd.avg_glucose_level, 0),
     bmi               |-> IfNotNone(fd.bmi, 0),
     smoking_status    |-> OrDefault(fd.smoking_status, "never smoked")]

\* risk_level_model with `<=` for `<`.
risk_level_model_inclusive(p) ==
    IF p <= 10 THEN "Very Low Risk"
    ELSE IF p <= 30 THEN "Low Risk"
    ELSE IF p <= 60 THEN "Moderate Risk"
    ELSE "High Risk"

\* The four-tier label of the model branch.
risk_level_model(p) ==
    IF p < 10 THEN "Very Low Risk"
    ELSE IF p < 30 THEN "Low Risk"
    ELSE IF p < 60 THEN "Moderate Risk"
    ELSE "High Risk"

\* The four-tier label of the except branch.
risk_level_alternative(p) ==
    IF p < 10 THEN "Very Low Risk"
    ELSE IF p < 30 THEN "Low Risk"
    ELSE IF p < 60 THEN "Moderate Risk"
    ELSE "High Risk"

\* risk_factors.append(...) under a condition.
AppendIf(c, s, x) == IF c THEN Append(s, x) ELSE s

risk_factors_model(pd) ==
    LET r1 == AppendIf(pd.hypertension = 1, <<>>, "Hypertension")
        r2 == AppendIf(pd.heart_disease = 1, r1, "Heart Disease")
        r3 == AppendIf(pd.age > 65, r2, "Advanced Age (65+)")
        r4 == AppendIf(pd.avg_glucose_level > 140, r3, "High Blood Glucose (>140)")
        r5 == AppendIf(pd.bmi > 30, r4, "Obesity (BMI > 30)")
        r6 == AppendIf(pd.smoking_status = "formerly smoked", r5, "Former Smoker")
    IN  AppendIf(pd.smoking_status = "smokes", r6, "Current Smoker")

\* risk_factors_alternative with the obesity check moved above the glucose check.
risk_factors_alternative_reordered(pd) ==
    LET r1 == AppendIf(pd.hypertension = 1, <<>>, "Hypertension")
        r2 == AppendIf(pd.heart_disease = 1, r1, "Heart Disease")
        r3 == AppendIf(pd.age > 65, r2, "Advanced Age (65+)")
        r4 == AppendIf(pd.bmi > 30, r3, "Obesity (BMI > 30)")
        r5 == AppendIf(pd.avg_glucose_level > 140, r4, "High Blood Glucose (>140)")
        r6 == AppendIf(pd.smoking_status = "formerly smoked", r5, "Former Smoker")
    IN  AppendIf(pd.smoking_status = "smokes", r6, "Current Smoker")

risk_factors_alternative(pd) ==
    LET r1 == AppendIf(pd.hypertension = 1, <<>>, "Hypertension")
        r2 == AppendIf(pd.heart_disease = 1, r1, "Heart Disease")
        r3 == AppendIf(pd.age > 65, r2, "Advanced Age (65+)")
        r4 == AppendIf(pd.avg_glucose_level > 140, r3, "High Blood Glucose (>140)")
        r5 == AppendIf(pd.bmi > 30, r4, "Obesity (BMI > 30)")
        r6 == AppendIf(pd.smoking_status = "formerly smoked", r5, "Former Smoker")
    IN  AppendIf(pd.smoking_status = "smokes", r6, "Current Smoker")

Min(a, b) == IF a < b THEN a ELSE b

\* alternative_probability with every `elif` an `if`: the tiers add up.
alternative_probability_additive(pd) ==
    LET p0 == 5
        p1 == p0 + (IF pd.hypertension = 1 THEN 10 ELSE 0)
        p2 == p1 + (IF pd.heart_disease = 1 THEN 10 ELSE 0)
        p3 == p2 + (IF pd.age > 65 THEN 15 ELSE 0) + (IF pd.age > 55 THEN 10 ELSE 0)
        p4 == p3 + (IF pd.avg_glucose_level > 180 THEN 10 ELSE 0)
                 + (IF pd.avg_glucose_level > 140 THEN 5 ELSE 0)
        p5 == p4 + (IF pd.bmi > 30 THEN 5 ELSE 0)
        p6 == p5 + (IF pd.smoking_status = "smokes" THEN 7 ELSE 0)
                 + (IF pd.smoking_status = "formerly smoked" THEN 3 ELSE 0)
    IN  Min(p6, 80)

alternative_probability(pd) ==
    LET p0 == 5
        p1 == p0 + (IF pd.hypertension = 1 THEN 10 ELSE 0)
        p2 == p1 + (IF pd.heart_disease = 1 THEN 10 ELSE 0)
        p3 == p2 + (IF pd.age > 65 THEN 15 ELSE IF pd.age > 55 THEN 10 ELSE 0)
        p4 == p3 + (IF pd.avg_glucose_level > 180 THEN 10
                    ELSE IF pd.avg_glucose_level > 140 THEN 5 ELSE 0)
        p5 == p4 + (IF pd.bmi > 30 THEN 5 ELSE 0)
        p6 == p5 + (IF pd.smoking_status = "smokes" THEN 7
                    ELSE IF pd.smoking_status = "formerly smoked" THEN 3 ELSE 0)
    IN  Min(p6, 80)

\* What a fitted estimator answers for one row: it raises, or it gives
\* predict_proba(...)[0][1] and predict(...)[0].
EstimatorOutputs ==
    {[raises |-> TRUE, proba |-> 0, binary |-> 0]}
    \cup {[raises |-> FALSE, proba |-> o[1], binary |-> o[2]] :
            o \in {<<9, 0>>, <<10, 0>>, <<30, 0>>, <<59, 1>>, <<60, 1>>}}

\* The dict built in the try branch.
model_result(pd, out) ==
    [probability       |-> out.proba,
     prediction        |-> risk_level_model(out.proba),
     stroke_prediction |-> out.binary,
     risk_factors      |-> risk_factors_model(pd)]

\* The dict built in the except branch.
\* The except branch with `>= 0.5` in place of `> 0.5` on line 200.
alternative_result_inclusive(pd) ==
    LET p == alternative_probability(pd)
    IN  [probability       |-> p,
         prediction        |-> risk_level_alternative(p),
         stroke_prediction |-> IF p >= 50 THEN 1 ELSE 0,
         risk_factors      |-> risk_factors_alternative(pd)]

alternative_result(pd) ==
    LET p == alternative_probability(pd)
    IN  [probability       |-> p,
         prediction        |-> risk_level_alternative(p),
         stroke_prediction |-> IF p > 50 THEN 1 ELSE 0,
         risk_factors      |-> risk_factors_alternative(pd)]

DefaultRow == processed_data(EmptyForm)

\* Module import, lines 13-40: the size of the artifact is printed before the
\* try; joblib.load and the reads of model_info's keys are inside it.
\*   "missing"  no file at model_path: os.path.getsize raises before the try
\*   "corrupt"  joblib.load, or a read of the loaded object, raises in the try
\*   "ok"       everything in the try succeeds
\* `pipeline` is read only while model_info is loaded, so it is kept
\* "undefined" whenever the try did not run to its end.
Artifacts == {"missing", "corrupt", "ok"}

getsize_raises(artifact) == artifact = "missing"

StartupStroke ==
    /\ app = "stroke"
    /\ proc = "starting"
    /\ \E artifact \in Artifacts, est \in EstimatorOutputs :
          /\ load_env' = artifact
          /\ IF getsize_raises(artifact)
             THEN /\ proc' = "crashed"
                  /\ UNCHANGED <<model_info, pipeline>>
             ELSE /\ proc' = "serving"
                  /\ model_info' = IF artifact = "ok" THEN "loaded" ELSE "None"
                  /\ pipeline' = IF artifact = "ok"
                                 THEN [on_defaults |-> est]
                                 ELSE "undefined"
    /\ UNCHANGED <<app, form, result, branch, first_omitted>>
    /\ UNCHANGED imageVars

\* The client sets one more field of the request it is composing.
FillField ==
    /\ app = "stroke"
    /\ proc = "serving"
    /\ result = None
    /\ \E f \in FieldNames :
          /\ form[f] = None
          /\ \E v \in FieldValues[f] : form' = [form EXCEPT ![f] = Some(v)]
    /\ UNCHANGED <<app, proc, model_info, pipeline, result, branch, first_omitted, load_env>>
    /\ UNCHANGED imageVars

\* pipeline.predict_proba / pipeline.predict on a row: a fitted estimator is a
\* fixed function of the row.  Its answer for the all-defaults row is part of
\* the loaded artifact; for any other row it is whatever `out` the caller draws.
predict_proba(row, out) == IF row = DefaultRow THEN pipeline.on_defaults ELSE out

\* POST /api/predict, lines 62-228.
predict_stroke ==
    /\ app = "stroke"
    /\ proc = "serving"
    /\ result = None
    /\ \E out \in EstimatorOutputs :
          LET pd == processed_data(form)
              use_fallback == model_info # "loaded" \/ predict_proba(pd, out).raises
              res == IF use_fallback
                     THEN alternative_result(pd)
                     ELSE model_result(pd, predict_proba(pd, out))
          IN  /\ result' = Some(res)
              /\ branch' = IF use_fallback THEN "fallback" ELSE "model"
              /\ first_omitted' = IF form = EmptyForm /\ first_omitted = None
                                  THEN Some(res)
                                  ELSE first_omitted
    /\ UNCHANGED <<app, proc, model_info, pipeline, form, load_env>>
    /\ UNCHANGED imageVars

\* The client has its answer and starts composing the next request.
NextRequest ==
    /\ app = "stroke"
    /\ proc = "serving"
    /\ result # None
    /\ form' = EmptyForm
    /\ result' = None
    /\ branch' = "none"
    /\ UNCHANGED <<app, proc, model_info, pipeline, first_omitted, load_env>>
    /\ UNCHANGED imageVars

(***************************************************************************)
(* Image apps: src/hf-spaces/alzheimers-model/app.py and                   *)
(* src/hf-spaces/brain-tumor-model/app.py                                  *)
(***************************************************************************)
\* The FastAPI endpoints are coroutines of the one event loop ("loop"); the
\* Gradio callbacks are plain functions, which Gradio runs on a worker thread.
Threads == {"loop", "worker"}

CLASSES == <<"Non Demented", "Very Mild Demented", "Mild Demented", "Moderate Demented">>

CLASS_NAMES == <<"glioma", "meningioma", "pituitary", "no_tumor">>

\* JSON null, the value of a key set to Python's None.
Null == "null"

NoResponse == <<>>

\* What a POST /api/predict carried (`file`, `fileUrl`) and whether its
\* handler called requests.get (`fetched`); all FALSE for the other callers.
NoRequest == [file |-> FALSE, fileUrl |-> FALSE, fetched |-> FALSE]

IdleThread ==
    [pc |-> "idle", kind |-> "none", base_model |-> 0, m |-> 0,
     outcome |-> "none", response |-> NoResponse, probabilities |-> <<>>,
     request |-> NoRequest]

\* Softmax outputs of a forward pass, in hundredths, ties included.
Softmaxes ==
    {<<70, 10, 10, 10>>, <<10, 20, 30, 40>>, <<40, 40, 10, 10>>, <<5, 45, 5, 45>>}

\* np.random.uniform(0.06, 0.95): a slipped decimal point.
UniformSamplesLow == {6, 94}

\* np.random.uniform(0.6, 0.95), in hundredths.
UniformSamples == {60, 94}

\* np.random.randint(0, len(CLASSES)), as a 1-based index.
RandintSamples == 1..Len(CLASSES)

\* torch.argmin for torch.argmax.
argmin(p) ==
    CHOOSE i \in 1..Len(p) :
        /\ \A j \in 1..Len(p) : p[i] <= p[j]
        /\ \A j \in 1..(i - 1) : p[i] < p[j]

\* torch.argmax: the first index holding the maximum.
argmax(p) ==
    CHOOSE i \in 1..Len(p) :
        /\ \A j \in 1..Len(p) : p[j] <= p[i]
        /\ \A j \in 1..(i - 1) : p[j] < p[i]

\* What the bytes behind a file upload or a URL turn out to be.
\*   "unreachable"  requests.get raises (URL requests only)
\*   "garbage"      Image.open raises (a 404 page, a text file)
\*   "image"        Image.open returns an image
Payloads == {"unreachable", "garbage", "image"}

\* What happens to an opened image in the try of predict / of the handler.
Passes == {"ok", "preprocess_raises", "inference_raises"}

\* A thread's record once its handler has returned `response`.
Done(kind, m, outcome, response, probabilities) ==
    [pc |-> "done", kind |-> kind, base_model |-> 0, m |-> m,
     outcome |-> outcome, response |-> response, probabilities |-> probabilities,
     request |-> NoRequest]

\* A thread's record on entering load_model() of the Alzheimer's app.
Calling(kind) == [IdleThread EXCEPT !.pc = "check", !.kind = kind]

\* Alzheimer's predict(), lines 82-113, for the handle `m` it is given.
alternative_prediction(class_idx, confidence) ==
    [prediction |-> CLASSES[class_idx], confidence |-> confidence]

\* predict() whose except reports the error instead of guessing.
predict_reporting(kind, m, pass, probabilities, class_idx, confidence) ==
    IF m = 0
    THEN Done(kind, m, "model_absent",
              alternative_prediction(class_idx, confidence), <<>>)
    ELSE IF pass # "ok"
    THEN Done(kind, m, pass, [error |-> pass], <<>>)
    ELSE Done(kind, m, "ok",
              [prediction |-> CLASSES[argmax(probabilities)],
               confidence |-> probabilities[argmax(probabilities)]],
              probabilities)

predict(kind, m, pass, probabilities, class_idx, confidence) ==
    IF m = 0
    THEN Done(kind, m, "model_absent",
              alternative_prediction(class_idx, confidence), <<>>)
    ELSE IF pass # "ok"
    THEN Done(kind, m, pass, alternative_prediction(class_idx, confidence), <<>>)
    ELSE Done(kind, m, "ok",
              [prediction |-> CLASSES[argmax(probabilities)],
               confidence |-> probabilities[argmax(probabilities)]],
              probabilities)

\* Alzheimer's process_url(), lines 125-135, up to its call of process_image.
url_error_alz(kind, payload) ==
    Done(kind, 0, IF payload = "unreachable" THEN "fetch_raises" ELSE "decode_raises",
         [prediction |-> "Error processing image", confidence |-> 0,
          error |-> IF payload = "unreachable" THEN "connection error"
                    ELSE "cannot identify image file"],
         <<>>)

\* The except of api_predict and of predict_endpoint.
error_only(kind, outcome, message) ==
    Done(kind, 0, outcome, [error |-> message], <<>>)

Free(t) == th[t].pc \in {"idle", "done"}

Serving(a) == app = a /\ proc = "serving"

\* Module import of the Alzheimer's app: nothing is loaded, `model = None`.
StartupAlz ==
    /\ app = "alzheimers"
    /\ proc = "starting"
    /\ proc' = "serving"
    /\ UNCHANGED <<app, model, loads, th, load_env>>
    /\ UNCHANGED strokeVars

\* The thread record `rec` of a POST /api/predict that carried `file` and
\* `fileUrl`, its handler having called requests.get or not.
Of(rec, file, fileUrl, fetched) ==
    [rec EXCEPT !.request = [file |-> file, fileUrl |-> fileUrl, fetched |-> fetched]]

\* api_predict with the two tests swapped: `if fileUrl: ... elif file:`.
alz_source_url_first(file, fileUrl) ==
    IF fileUrl THEN "fileUrl" ELSE IF file THEN "file" ELSE "neither"

\* api_predict, lines 144-152: `if file: ... elif fileUrl: ... else: ...`.
alz_source(file, fileUrl) ==
    IF file THEN "file" ELSE IF fileUrl THEN "fileUrl" ELSE "neither"

\* POST /api/predict, lines 138-157, up to the call of process_image;
\* `payload` is what lies behind the source the handler reads.
alz_api_predict ==
    /\ Serving("alzheimers")
    /\ Free("loop")
    /\ \E file \in BOOLEAN, fileUrl \in BOOLEAN, payload \in Payloads :
          LET source == alz_source(file, fileUrl)
          IN  th' = [th EXCEPT !["loop"] =
                    IF source = "file"
                    THEN Of(IF payload = "image" THEN Calling("api_file")
                            ELSE error_only("api_file", "decode_raises",
                                            "cannot identify image file"),
                            file, fileUrl, FALSE)
                    ELSE IF source = "fileUrl"
                    THEN Of(IF payload = "image" THEN Calling("api_url")
                            ELSE url_error_alz("api_url", payload),
                            file, fileUrl, TRUE)
                    ELSE Of(error_only("api_none", "no_input",
                                       "Either file or fileUrl is required"),
                            file, fileUrl, FALSE)]
    /\ UNCHANGED <<app, proc, model, loads, load_env>>
    /\ UNCHANGED strokeVars

\* POST /predict, lines 160-167, up to the call of process_image.
predict_endpoint ==
    /\ Serving("alzheimers")
    /\ Free("loop")
    /\ \E payload \in Payloads \ {"unreachable"} :
          th' = [th EXCEPT !["loop"] =
                    IF payload = "image" THEN Calling("predict_file")
                    ELSE error_only("predict_file", "decode_raises", "cannot identify image file")]
    /\ UNCHANGED <<app, proc, model, loads, load_env>>
    /\ UNCHANGED strokeVars

\* The Gradio callbacks, lines 185 and 196: process_image and process_url.
gradio_click ==
    /\ Serving("alzheimers")
    /\ Free("worker")
    /\ \E source \in {"image", "url"}, payload \in Payloads :
          th' = [th EXCEPT !["worker"] =
                    IF source = "image" \/ payload = "image"
                    THEN Calling(IF source = "image" THEN "ui_image" ELSE "ui_url")
                    ELSE url_error_alz("ui_url", payload)]
    /\ UNCHANGED <<app, proc, model, loads, load_env>>
    /\ UNCHANGED strokeVars

\* load_model() without the `if model is None` test: it builds on every call.
load_check_always(t) ==
    /\ Serving("alzheimers")
    /\ th[t].pc = "check"
    /\ th' = [th EXCEPT ![t].pc = "build"]
    /\ UNCHANGED <<app, proc, model, loads, load_env>>
    /\ UNCHANGED strokeVars

\* load_model(), line 35: `if model is None`.
load_check(t) ==
    /\ Serving("alzheimers")
    /\ th[t].pc = "check"
    /\ th' = [th EXCEPT ![t].pc = IF model = 0 THEN "build" ELSE "return"]
    /\ UNCHANGED <<app, proc, model, loads, load_env>>
    /\ UNCHANGED strokeVars

\* load_model(), lines 37-49: the network is built, or something raises.
load_build(t) ==
    /\ Serving("alzheimers")
    /\ th[t].pc = "build"
    /\ loads < MaxLoads
    /\ loads' = loads + 1
    /\ \E built \in BOOLEAN :
          th' = [th EXCEPT ![t].pc = IF built THEN "assign" ELSE "except",
                           ![t].base_model = IF built THEN loads + 1 ELSE 0]
    /\ UNCHANGED <<app, proc, model, load_env>>
    /\ UNCHANGED strokeVars

\* load_model(), line 50: `model = base_model`.
load_assign(t) ==
    /\ Serving("alzheimers")
    /\ th[t].pc = "assign"
    /\ model' = th[t].base_model
    /\ th' = [th EXCEPT ![t].pc = "return"]
    /\ UNCHANGED <<app, proc, loads, load_env>>
    /\ UNCHANGED strokeVars

\* load_model(), lines 52-54: `model = None`.
load_except(t) ==
    /\ Serving("alzheimers")
    /\ th[t].pc = "except"
    /\ model' = 0
    /\ th' = [th EXCEPT ![t].pc = "return"]
    /\ UNCHANGED <<app, proc, loads, load_env>>
    /\ UNCHANGED strokeVars

\* load_model(), line 56, `return model`, then the rest of process_image:
\* predict(model, image) and the dict built from it.
process_image(t) ==
    /\ Serving("alzheimers")
    /\ th[t].pc = "return"
    /\ \E pass \in Passes, probabilities \in Softmaxes,
          class_idx \in RandintSamples, confidence \in UniformSamples :
          th' = [th EXCEPT ![t] =
                    [predict(th[t].kind, model, pass, probabilities, class_idx, confidence)
                        EXCEPT !.request = th[t].request]]
    /\ UNCHANGED <<app, proc, model, loads, load_env>>
    /\ UNCHANGED strokeVars

(***************************************************************************)
(* Brain-tumor app                                                         *)
(***************************************************************************)
\* What load_model() of the brain-tumor app finds when it has to build.
\*   "weights_unavailable"  models.resnet50(weights=...) raises
\*   "file_missing"         no file at MODEL_PATH
\*   "file_corrupt"         torch.load / load_state_dict raises
\*   "ok"                   the saved weights load
TumorEnvs == {"weights_unavailable", "file_missing", "file_corrupt", "ok"}

\* load_model(), lines 36-65: the handle returned, whether the call raised,
\* and the globals after it.
tumor_load_model(cur_model, cur_loads, env) ==
    IF cur_model # 0
    THEN [raised |-> FALSE, returned |-> cur_model, model |-> cur_model, loads |-> cur_loads]
    ELSE IF env = "weights_unavailable"
    THEN [raised |-> TRUE, returned |-> 0, model |-> cur_model, loads |-> cur_loads + 1]
    ELSE [raised |-> FALSE, returned |-> cur_loads + 1, model |-> cur_loads + 1,
          loads |-> cur_loads + 1]

\* Module import of the brain-tumor app: line 204 calls load_model().
StartupTumor ==
    /\ app = "brain_tumor"
    /\ proc = "starting"
    /\ \E env \in TumorEnvs :
          LET l == tumor_load_model(model, loads, env)
          IN  /\ load_env' = env
              /\ proc' = IF l.raised THEN "crashed" ELSE "serving"
              /\ model' = l.model
              /\ loads' = l.loads
    /\ UNCHANGED <<app, th>>
    /\ UNCHANGED strokeVars

\* max(probs, key=probs.get) over the dict built in CLASS_NAMES order: the
\* first key holding the maximum.
max_key(p) ==
    CHOOSE i \in 1..Len(p) :
        /\ \A j \in 1..Len(p) : p[j] <= p[i]
        /\ \A j \in 1..(i - 1) : p[j] < p[i]

class_probabilities(p) ==
    [c \in {CLASS_NAMES[i] : i \in 1..Len(CLASS_NAMES)} |->
        p[CHOOSE i \in 1..Len(CLASS_NAMES) : CLASS_NAMES[i] = c]]

\* The dict returned by the try of api_predict and of process_url.
tumor_prediction(p) ==
    [prediction          |-> CLASS_NAMES[max_key(p)],
     confidence          |-> p[max_key(p)],
     is_tumor            |-> CLASS_NAMES[max_key(p)] # "no_tumor",
     binary_result       |-> IF CLASS_NAMES[max_key(p)] # "no_tumor"
                             THEN "Tumor Detected" ELSE "No Tumor Detected",
     class_probabilities |-> class_probabilities(p)]

\* process_url whose except returns what the except of api_predict returns.
tumor_url_error_bare(message) == [error |-> message]

\* The dict returned by the except of process_url, lines 150-158.
tumor_url_error(message) ==
    [error               |-> message,
     prediction          |-> Null,
     confidence          |-> 0,
     is_tumor            |-> FALSE,
     binary_result       |-> "Error",
     class_probabilities |-> [c \in {CLASS_NAMES[i] : i \in 1..Len(CLASS_NAMES)} |-> 0]]

\* What the try of api_predict (file) or of process_url runs into, in order.
tumor_outcome(payload, l, pass) ==
    IF payload = "unreachable" THEN "fetch_raises"
    ELSE IF payload = "garbage" THEN "decode_raises"
    ELSE IF l.raised THEN "load_raises"
    ELSE pass

\* api_predict, lines 167-199: `if file: ... elif fileUrl: ... else: ...`.
tumor_source(file, fileUrl) ==
    IF file THEN "file" ELSE IF fileUrl THEN "fileUrl" ELSE "neither"

\* POST /api/predict, lines 161-201; `payload` is what lies behind the source
\* the handler reads.
tumor_api_predict ==
    /\ Serving("brain_tumor")
    /\ Free("loop")
    /\ \E file \in BOOLEAN, fileUrl \in BOOLEAN, payload \in Payloads,
          env \in TumorEnvs, pass \in Passes, probabilities \in Softmaxes :
          LET source == tumor_source(file, fileUrl)
              l == tumor_load_model(model, loads, env)
              opened == payload = "image"
              outcome == tumor_outcome(payload, l, pass)
          IN  /\ source = "file" => payload # "unreachable"
              /\ model' = IF source # "neither" /\ opened THEN l.model ELSE model
              /\ loads' = IF source # "neither" /\ opened THEN l.loads ELSE loads
              /\ th' = [th EXCEPT !["loop"] =
                    IF source = "neither"
                    THEN Of(error_only("api_none", "no_input",
                                       "Either file or fileUrl is required"),
                            file, fileUrl, FALSE)
                    ELSE IF source = "file"
                    THEN Of(IF outcome = "ok"
                            THEN Done("api_file", l.returned, "ok",
                                      tumor_prediction(probabilities), probabilities)
                            ELSE error_only("api_file", outcome, outcome),
                            file, fileUrl, FALSE)
                    ELSE Of(IF outcome = "ok"
                            THEN Done("api_url", l.returned, "ok",
                                      tumor_prediction(probabilities), probabilities)
                            ELSE Done("api_url", l.returned, outcome,
                                      tumor_url_error(outcome), <<>>),
                            file, fileUrl, TRUE)]
    /\ UNCHANGED <<app, proc, load_env>>
    /\ UNCHANGED strokeVars


InitCommon ==
    /\ proc = "starting"
    /\ model = 0
    /\ loads = 0
    /\ th = [t \in Threads |-> IdleThread]
    /\ model_info = "unbound"
    /\ pipeline = "undefined"
    /\ form = EmptyForm
    /\ result = None
    /\ branch = "none"
    /\ first_omitted = None
    /\ load_env = "none"

InitStroke == app = "stroke" /\ InitCommon

NextStroke == StartupStroke \/ FillField \/ predict_stroke \/ NextRequest

SpecStroke == InitStroke /\ [][NextStroke]_vars

InitAlz == app = "alzheimers" /\ InitCommon

NextAlz ==
    \/ StartupAlz
    \/ alz_api_predict
    \/ predict_endpoint
    \/ gradio_click
    \/ \E t \in Threads : load_check(t)
    \/ \E t \in Threads : load_build(t)
    \/ \E t \in Threads : load_assign(t)
    \/ \E t \in Threads : load_except(t)
    \/ \E t \in Threads : process_image(t)

SpecAlz == InitAlz /\ [][NextAlz]_vars

InitTumor == app = "brain_tumor" /\ InitCommon

NextTumor == StartupTumor \/ tumor_api_predict

\* The two image apps, handlers of different threads interleaved.
InitImage == InitAlz \/ InitTumor

NextImage == NextAlz \/ NextTumor

SpecImage == InitImage /\ [][NextImage]_vars

\* The image apps with one request at a time: a handler starts only when no
\* other is running, so the calls of load_model() form a sequence.
NoCallRunning == \A t \in Threads : Free(t)

NextSeq ==
    \/ StartupAlz
    \/ NoCallRunning /\ alz_api_predict
    \/ NoCallRunning /\ predict_endpoint
    \/ NoCallRunning /\ gradio_click
    \/ \E t \in Threads : load_check(t)
    \/ \E t \in Threads : load_build(t)
    \/ \E t \in Threads : load_assign(t)
    \/ \E t \in Threads : load_except(t)
    \/ \E t \in Threads : process_image(t)
    \/ NextTumor

SpecSeq == InitImage /\ [][NextSeq]_vars

\* All three apps.
Init == InitAlz \/ InitTumor \/ InitStroke

Next == NextAlz \/ NextTumor \/ NextStroke

Spec == Init /\ [][Next]_vars

(***************************************************************************)
(* Properties                                                              *)
(***************************************************************************)
Range(seq) == {seq[i] : i \in 1..Len(seq)}

ClassesOf(a) == IF a = "alzheimers" THEN Range(CLASSES) ELSE Range(CLASS_NAMES)

RiskLevels == {"Very Low Risk", "Low Risk", "Moderate Risk", "High Risk"}

EndpointKinds == {"api_file", "api_url", "api_none", "predict_file"}

Returned(t) == th[t].pc = "done"

\* The stages of a request that can fail.
FallbackCauses == {"model_absent", "preprocess_raises", "inference_raises"}

FailureOutcomes == FallbackCauses \cup {"decode_raises", "fetch_raises", "load_raises"}

FailedAtEndpoint(t) ==
    /\ Returned(t)
    /\ th[t].kind \in EndpointKinds
    /\ th[t].outcome \in FailureOutcomes

\* A body holding a label of the app's class set and a confidence, and no error.
IsImagePrediction(r) ==
    /\ {"prediction", "confidence"} \subseteq DOMAIN r
    /\ "error" \notin DOMAIN r
    /\ r.prediction \in ClassesOf(app)
    /\ r.confidence \in 0..100

\* A body holding an error and no label of the class set.
IsErrorBody(r) ==
    /\ "error" \in DOMAIN r
    /\ "prediction" \in DOMAIN r => r.prediction \notin ClassesOf(app) /\ r.confidence = 0

IsStrokeResult(r) ==
    /\ DOMAIN r = {"probability", "prediction", "stroke_prediction", "risk_factors"}
    /\ r.probability \in 0..100
    /\ r.prediction \in RiskLevels
    /\ r.stroke_prediction \in {0, 1}

\* C1, as claimed: at every endpoint of every app, a request that failed at
\* any stage (handle absent, fetch or decode failure, preprocessing or
\* inference exception) returned a fallback prediction: a label of the app's
\* result set with a confidence or probability, and no error body.
C1_EveryFailureFallsBack ==
    /\ \A t \in Threads : FailedAtEndpoint(t) => IsImagePrediction(th[t].response)
    /\ branch = "fallback" => IsStrokeResult(result[1])

\* C1, amended: every endpoint request that has returned has returned a body;
\* a failed request of the Alzheimer's app whose failure is an absent handle
\* or a preprocessing/inference exception returned a fallback prediction,
\* every other failed request of an image app returned an error body without
\* a class label, and a stroke request answered by the except branch returned
\* a well-formed result.
C1_FailuresEndInBody ==
    /\ \A t \in Threads :
          Returned(t) /\ th[t].kind \in EndpointKinds => th[t].response # NoResponse
    /\ \A t \in Threads :
          FailedAtEndpoint(t) =>
             IF app = "alzheimers" /\ th[t].outcome \in FallbackCauses
             THEN IsImagePrediction(th[t].response)
             ELSE IsErrorBody(th[t].response)
    /\ branch = "fallback" => IsStrokeResult(result[1])

\* C1 witness: POST /api/predict of the Alzheimer's app, given a file that is
\* no image, has returned a body holding only an error.
C1_Witness ==
    /\ app = "alzheimers"
    /\ Returned("loop")
    /\ th["loop"].kind = "api_file"
    /\ th["loop"].outcome = "decode_raises"
    /\ DOMAIN th["loop"].response = {"error"}

\* A call of load_model() that has returned the handle th[t].m.
CalledLoadModel(t) ==
    /\ Returned(t)
    /\ th[t].outcome \in FallbackCauses \cup {"ok"}

\* C2, as claimed: over any sequence of calls of load_model() the model is
\* built by the first call only, also when that first build failed.
C2_BuiltByFirstCallOnly == loads <= 1

\* C2, amended: over any sequence of calls of load_model(), once a build has
\* succeeded the handle never changes and nothing is built again, and every
\* call that returns a loaded handle returns that one handle.  (While the
\* handle is still None, as after a failed build, the next call builds again.)
C2_MemoizedOnceLoaded ==
    /\ [][model # 0 => model' = model /\ loads' = loads]_vars
    /\ [](\A t \in Threads : CalledLoadModel(t) /\ th[t].m # 0 => th[t].m = model)

\* C2 witness: the first build failed and its caller got None, the second
\* call built the model, and a later call was handed that same model.
C2_Witness ==
    /\ app = "alzheimers"
    /\ loads = 2
    /\ model = 2
    /\ \A t \in Threads : CalledLoadModel(t) /\ th[t].m = 2

LoadFailed ==
    load_env \in {"missing", "corrupt", "weights_unavailable", "file_missing", "file_corrupt"}

HandleAbsent == IF app = "stroke" THEN model_info = "None" ELSE model = 0

\* C3, as claimed: when the load at start-up fails (no artifact file, corrupt
\* weights, pretrained weights unavailable) nothing is raised to the caller:
\* the process serves, with an absent handle.
C3_LoadFailureYieldsAbsent == LoadFailed => proc = "serving" /\ HandleAbsent

\* C4, as claimed: however the requests interleave, one model is built per
\* process and every request reads that same model.
C4_OneModelPerProcess ==
    \A t1, t2 \in Threads :
        /\ CalledLoadModel(t1) /\ th[t1].m # 0
        /\ CalledLoadModel(t2) /\ th[t2].m # 0
        => th[t1].m = th[t2].m

\* The defaulted input of the stroke request in `form`.
Input == processed_data(form)

Indicator(c, x) == IF c THEN x ELSE 0

TierRank(label) ==
    CASE label = "Very Low Risk" -> 0
      [] label = "Low Risk"      -> 1
      [] label = "Moderate Risk" -> 2
      [] label = "High Risk"     -> 3

\* C6: on both branches the label of a stroke result follows from its
\* probability p: p < 0.10 very low, 0.10 <= p < 0.30 low, 0.30 <= p < 0.60
\* moderate, p >= 0.60 high; the tier is the number of breakpoints at or
\* below p, so a larger p never gives a lower tier.
C6_RiskLevelByProbability ==
    result # None =>
        LET p == result[1].probability
            label == result[1].prediction
        IN  /\ p < 10 => label = "Very Low Risk"
            /\ 10 <= p /\ p < 30 => label = "Low Risk"
            /\ 30 <= p /\ p < 60 => label = "Moderate Risk"
            /\ p >= 60 => label = "High Risk"
            /\ TierRank(label) = Cardinality({b \in {10, 30, 60} : b <= p})

\* C6 witness: the model branch returned exactly 0.60, labelled high risk.
C6_Witness ==
    /\ branch = "model"
    /\ result[1].probability = 60
    /\ result[1].prediction = "High Risk"

FactorOrder ==
    <<"Hypertension", "Heart Disease", "Advanced Age (65+)", "High Blood Glucose (>140)",
      "Obesity (BMI > 30)", "Former Smoker", "Current Smoker">>

Crossed(factor) ==
    CASE factor = "Hypertension"              -> Input.hypertension = 1
      [] factor = "Heart Disease"             -> Input.heart_disease = 1
      [] factor = "Advanced Age (65+)"        -> Input.age > 65
      [] factor = "High Blood Glucose (>140)" -> Input.avg_glucose_level > 140
      [] factor = "Obesity (BMI > 30)"        -> Input.bmi > 30
      [] factor = "Former Smoker"             -> Input.smoking_status = "formerly smoked"
      [] factor = "Current Smoker"            -> Input.smoking_status = "smokes"

ExampleForm ==
    [EmptyForm EXCEPT !.hypertension = Some(1), !.age = Some(70),
                      !.avg_glucose_level = Some(150)]

\* C7: on both branches risk_factors holds exactly the factors whose threshold
\* the defaulted input crosses, in the one fixed order; for hypertension 1,
\* age 70, glucose 150 and nothing else it is Hypertension, Advanced Age
\* (65+), High Blood Glucose (>140).
C7_RiskFactorsFromInput ==
    result # None =>
        /\ result[1].risk_factors = SelectSeq(FactorOrder, Crossed)
        /\ form = ExampleForm =>
              result[1].risk_factors =
                  <<"Hypertension", "Advanced Age (65+)", "High Blood Glucose (>140)">>

\* C7 witness: the except branch answered an obese 70-year-old with glucose
\* 200, listing age, glucose and obesity in that order.
C7_Witness ==
    /\ branch = "fallback"
    /\ result[1].risk_factors =
          <<"Advanced Age (65+)", "High Blood Glucose (>140)", "Obesity (BMI > 30)">>

Defaults ==
    [gender |-> "Male", age |-> 0, hypertension |-> 0, heart_disease |-> 0,
     ever_married |-> "No", work_type |-> "Private", Residence_type |-> "Urban",
     avg_glucose_level |-> 0, bmi |-> 0, smoking_status |-> "never smoked"]

\* C8: a stroke request is answered whatever fields it omits; each omitted
\* field enters the prediction with its documented default; and a request
\* with every field omitted gets the probability, prediction,
\* stroke_prediction and risk_factors of the first such request (in the
\* except branch: 0.05, very low risk, 0 and no risk factor).
C8_DefaultsAndDeterminism ==
    /\ app = "stroke" /\ proc = "serving" /\ result = None => ENABLED predict_stroke
    /\ \A f \in FieldNames : form[f] = None => Input[f] = Defaults[f]
    /\ form = EmptyForm /\ result # None =>
          /\ result[1] = first_omitted[1]
          /\ branch = "fallback" =>
                result[1] = [probability |-> 5, prediction |-> "Very Low Risk",
                             stroke_prediction |-> 0, risk_factors |-> <<>>]

\* C8 witness: a request with every field omitted was answered by the except
\* branch.
C8_Witness ==
    /\ form = EmptyForm
    /\ branch = "fallback"
    /\ first_omitted # None
    /\ result[1].probability = 5

\* C9, as claimed: in both image apps a request that met an absent handle or
\* a preprocessing/inference exception returned a fallback: a label of the
\* app's class names with a confidence in [0.6, 0.95].
C9_ImageFallback ==
    \A t \in Threads :
        Returned(t) /\ th[t].outcome \in FallbackCauses =>
            /\ IsImagePrediction(th[t].response)
            /\ th[t].response.confidence \in 60..95

\* C9, amended: in the Alzheimer's app such a request returned a fallback, a
\* label of CLASSES with a confidence in [0.6, 0.95]; in the brain-tumor app
\* it returned an error body without a class label, and no request of a
\* serving brain-tumor process met an absent handle.
C9_AlzheimersFallbackTumorError ==
    \A t \in Threads :
        /\ Returned(t) /\ th[t].outcome \in FallbackCauses =>
              IF app = "alzheimers"
              THEN /\ IsImagePrediction(th[t].response)
                   /\ DOMAIN th[t].response = {"prediction", "confidence"}
                   /\ th[t].response.confidence \in 60..95
              ELSE IsErrorBody(th[t].response)
        /\ app = "brain_tumor" /\ Returned(t) => th[t].outcome # "model_absent"

\* C9 witness: an Alzheimer's request found the handle absent and was
\* answered with the last class and the largest sampled confidence.
C9_Witness ==
    \E t \in Threads :
        /\ app = "alzheimers"
        /\ Returned(t)
        /\ th[t].outcome = "model_absent"
        /\ th[t].response.prediction = "Moderate Demented"
        /\ th[t].response.confidence = 94

\* C10: a request of an image app whose image was decoded, preprocessed and
\* classified returned a label of the app's class set, and that label is an
\* argmax of the forward pass: its probability is the returned confidence
\* and no class has a larger one.
C10_LabelIsArgmax ==
    \A t \in Threads :
        Returned(t) /\ th[t].outcome = "ok" =>
            LET r == th[t].response
                p == th[t].probabilities
                names == IF app = "alzheimers" THEN CLASSES ELSE CLASS_NAMES
            IN  /\ r.prediction \in ClassesOf(app)
                /\ \E i \in 1..Len(names) :
                      /\ names[i] = r.prediction
                      /\ p[i] = r.confidence
                      /\ \A j \in 1..Len(names) : p[j] <= p[i]

\* C10 witness: the Alzheimer's model put the most weight on the last class
\* and the request returned it with that weight.
C10_Witness ==
    \E t \in Threads :
        /\ app = "alzheimers"
        /\ Returned(t)
        /\ th[t].outcome = "ok"
        /\ th[t].probabilities = <<10, 20, 30, 40>>
        /\ th[t].response = [prediction |-> "Moderate Demented", confidence |-> 40]

UrlFailures == {"fetch_raises", "decode_raises"}

\* C11: in both image apps a /api/predict request that took the fileUrl
\* branch and whose URL could not be fetched, or answered with bytes that are
\* no image, returned a body: it has the prediction and confidence keys, the
\* prediction is no class of the app, the confidence is 0 and the exception
\* text is under the error key.
C11_UrlFailureShaped ==
    \A t \in Threads :
        (th[t].kind = "api_url" /\ th[t].outcome \in UrlFailures) =>
            LET r == th[t].response
            IN  /\ Returned(t)
                /\ r # NoResponse
                /\ {"prediction", "confidence", "error"} \subseteq DOMAIN r
                /\ r.prediction \notin ClassesOf(app)
                /\ r.confidence = 0

\* C11 witness: the tumor app was sent a fileUrl that answered with bytes that
\* are no image (a 404 page) and returned the error shape with a null
\* prediction.
C11_Witness ==
    /\ app = "brain_tumor"
    /\ Returned("loop")
    /\ th["loop"].kind = "api_url"
    /\ th["loop"].outcome = "decode_raises"
    /\ th["loop"].request.fetched
    /\ th["loop"].response.prediction = Null
    /\ th["loop"].response.binary_result = "Error"

ApiKinds == {"api_file", "api_url", "api_none"}

\* C12: a /api/predict request of an image app reads exactly one source: with
\* a file it takes the file branch and never fetches the URL, whether or not a
\* fileUrl came with it; with a fileUrl only it fetches the URL; with neither
\* it returns {"error": "Either file or fileUrl is required"}, and the step
\* that returns it neither loads nor invokes the model.
C12_OneInputSource ==
    /\ [](\A t \in Threads :
            th[t].kind \in ApiKinds =>
                LET q == th[t].request
                IN  /\ q.file => th[t].kind = "api_file" /\ ~q.fetched
                    /\ ~q.file /\ q.fileUrl => th[t].kind = "api_url" /\ q.fetched
                    /\ ~q.file /\ ~q.fileUrl =>
                          /\ th[t].kind = "api_none"
                          /\ ~q.fetched
                          /\ Returned(t)
                          /\ th[t].response = [error |-> "Either file or fileUrl is required"]
                          /\ th[t].m = 0
                          /\ th[t].probabilities = <<>>)
    /\ [][\A t \in Threads :
            (th'[t] # th[t] /\ th'[t].kind = "api_none") =>
                model' = model /\ loads' = loads]_vars

\* C12 witness: a request that carried both a file and a fileUrl was
\* classified from the file, and the URL was not fetched.
C12_Witness ==
    \E t \in Threads :
        /\ Returned(t)
        /\ th[t].kind = "api_file"
        /\ th[t].outcome = "ok"
        /\ th[t].request = [file |-> TRUE, fileUrl |-> TRUE, fetched |-> FALSE]

====
